---- MODULE Spec2Model ----
(***************************************************************************)
(* Model of kazoo/protocol/serialization.py: the ZooKeeper wire codec.     *)
(*                                                                         *)
(* A byte is a number in 0..255, a buffer a sequence of bytes, an offset   *)
(* a 0-based position in it.  A text is a sequence of Unicode code points; *)
(* UTF-8 turns it into bytes and back.  A Python value that may be None is *)
(* the record [isNone, v].  A 4-byte integer is a number; an 8-byte        *)
(* integer is kept as four 16-bit limbs <<h3, h2, h1, h0>>, the top one    *)
(* signed, because TLC's integers are 32 bits wide.                        *)
(* A call returns [raised, value, offset]: raised names the exception      *)
(* ("none" when the call returned).                                        *)
(***************************************************************************)
EXTENDS Integers, Sequences, FiniteSets, TLC

VARIABLES pc, buffer, offset, sent, ret

vars == <<pc, buffer, offset, sent, ret>>

\* ------------------------------------------------------------ bounds
MaxTextLen == 2
MaxBufLen == 2
MaxPad == 2
MaxCut == 2
MaxAcls == 5
MaxCalls == 2

\* ------------------------------------------------------------ values
None == [isNone |-> TRUE, v |-> <<>>]
Some(s) == [isNone |-> FALSE, v |-> s]
\* Python's "not x" for a string, a buffer or None
Falsy(x) == x.isNone \/ x.v = <<>>

Min(a, b) == IF a < b THEN a ELSE b
Max(a, b) == IF a > b THEN a ELSE b

\* buffer[a:b] for 0 <= a: the slice stops at the end of the buffer
Slice(b, lo, hi) == SubSeq(b, lo + 1, Min(hi, Len(b)))

\* "x = e" followed by F(x): e is computed once
Let(e, F(_)) == CHOOSE y \in {F(x) : x \in {e}} : TRUE

Return(v, off) == [raised |-> "none", value |-> v, offset |-> off]
Raise(e) == [raised |-> e, value |-> <<>>, offset |-> 0]

\* ------------------------------------------------------------ struct
\* struct.Struct('!...'): network order, no padding; "i" is 4 bytes, "q" 8
Width(c) == IF c = "q" THEN 8 ELSE 4

RECURSIVE calcsize(_)
calcsize(fmt) == IF fmt = <<>> THEN 0 ELSE Width(Head(fmt)) + calcsize(Tail(fmt))

\* big-endian signed 16 and 32 bit integers from bytes
U16(b, pos) == b[pos + 1] * 256 + b[pos + 2]
S16(b, pos) == (IF b[pos + 1] >= 128 THEN b[pos + 1] - 256 ELSE b[pos + 1]) * 256 + b[pos + 2]
S32(b, pos) == S16(b, pos) * 65536 + U16(b, pos + 2)
S64(b, pos) == <<S16(b, pos), U16(b, pos + 2), U16(b, pos + 4), U16(b, pos + 6)>>

UnpackField(c, b, pos) == IF c = "q" THEN S64(b, pos) ELSE S32(b, pos)

RECURSIVE UnpackFields(_, _, _)
UnpackFields(fmt, b, pos) ==
    IF fmt = <<>> THEN <<>>
    ELSE <<UnpackField(Head(fmt), b, pos)>> \o UnpackFields(Tail(fmt), b, pos + Width(Head(fmt)))

\* Struct.unpack_from(buffer, offset): struct.error unless size bytes remain
unpack_from(fmt, b, off) ==
    IF off + calcsize(fmt) > Len(b) THEN Raise("struct.error")
    ELSE Return(UnpackFields(fmt, b, off), off)

Pack16(n) == <<(n \div 256) % 256, n % 256>>
Pack32(n) == Pack16(n \div 65536) \o Pack16(n % 65536)
Pack64(l) == Pack16(l[1]) \o Pack16(l[2]) \o Pack16(l[3]) \o Pack16(l[4])

PackField(c, x) == IF c = "q" THEN Pack64(x) ELSE Pack32(x)

\* Struct.pack(values...)
RECURSIVE pack(_, _)
pack(fmt, xs) ==
    IF fmt = <<>> THEN <<>>
    ELSE PackField(Head(fmt), Head(xs)) \o pack(Tail(fmt), Tail(xs))

int_struct == <<"i">>
int_int_struct == <<"i", "i">>
int_int_long_struct == <<"i", "i", "q">>
int_long_int_long_struct == <<"i", "q", "i", "q">>
reply_header_struct == <<"i", "q", "i">>
\* stat_struct with 20 more bytes of fields: the 88-byte record
stat_struct_88 == <<"q", "q", "q", "q", "i", "i", "i", "q", "i", "i", "q", "q", "q", "i">>
stat_struct == <<"q", "q", "q", "q", "i", "i", "i", "q", "i", "i", "q">>

\* ------------------------------------------------------------ UTF-8
\* text.encode('utf-8'), one code point (a Unicode scalar value)
EncodeCodePoint(cp) ==
    IF cp < 128 THEN <<cp>>
    ELSE IF cp < 2048 THEN <<192 + (cp \div 64), 128 + (cp % 64)>>
    ELSE IF cp < 65536 THEN <<224 + (cp \div 4096), 128 + ((cp \div 64) % 64), 128 + (cp % 64)>>
    ELSE <<240 + (cp \div 262144), 128 + ((cp \div 4096) % 64),
           128 + ((cp \div 64) % 64), 128 + (cp % 64)>>

RECURSIVE utf8_encode(_)
utf8_encode(t) == IF t = <<>> THEN <<>> ELSE EncodeCodePoint(Head(t)) \o utf8_encode(Tail(t))

IsCont(b, i) == i <= Len(b) /\ b[i] >= 128 /\ b[i] <= 191

\* the length of the character a lead byte starts; 0 for a byte that starts none
CharLen(b1) ==
    IF b1 < 128 THEN 1
    ELSE IF b1 >= 194 /\ b1 <= 223 THEN 2
    ELSE IF b1 >= 224 /\ b1 <= 239 THEN 3
    ELSE IF b1 >= 240 /\ b1 <= 244 THEN 4
    ELSE 0

CodePointAt(b, i) ==
    LET n == CharLen(b[i])
    IN IF n = 1 THEN b[i]
       ELSE IF n = 2 THEN (b[i] - 192) * 64 + (b[i + 1] - 128)
       ELSE IF n = 3 THEN (b[i] - 224) * 4096 + (b[i + 1] - 128) * 64 + (b[i + 2] - 128)
       ELSE (b[i] - 240) * 262144 + (b[i + 1] - 128) * 4096
            + (b[i + 2] - 128) * 64 + (b[i + 3] - 128)

\* a well-formed character starts at i: its continuation bytes follow, it is not
\* overlong, not a surrogate and not beyond U+10FFFF
GoodChar(b, i) ==
    LET n == CharLen(b[i])
    IN /\ n > 0
       /\ \A k \in 1..(n - 1) : IsCont(b, i + k)
       /\ n = 3 => CodePointAt(b, i) >= 2048
                   /\ ~(CodePointAt(b, i) >= 55296 /\ CodePointAt(b, i) <= 57343)
       /\ n = 4 => CodePointAt(b, i) >= 65536 /\ CodePointAt(b, i) <= 1114111

\* bytes.decode('utf-8'), strict: [raised, v].  The bytes decode when every byte that
\* is no continuation byte starts a well-formed character and every continuation byte
\* belongs to one; the text is the characters in order.
utf8_decode(b) ==
    LET starts == SelectSeq([i \in 1..Len(b) |-> i], LAMBDA i : ~IsCont(b, i))
        owned(j) == \E i \in (j - 3)..(j - 1) : i >= 1 /\ ~IsCont(b, i) /\ j < i + CharLen(b[i])
        valid == /\ \A k \in 1..Len(starts) : GoodChar(b, starts[k])
                 /\ \A j \in 1..Len(b) : IsCont(b, j) => owned(j)
    IN IF ~valid THEN [raised |-> TRUE, v |-> <<>>]
       ELSE [raised |-> FALSE, v |-> [k \in 1..Len(starts) |-> CodePointAt(b, starts[k])]]

\* ------------------------------------------------------------ primitives
read_string(b, off) ==
    Let(unpack_from(int_struct, b, off), LAMBDA h :
        IF h.raised # "none" THEN Raise(h.raised)
        ELSE Let(h.value[1], LAMBDA length :
             Let(off + calcsize(int_struct), LAMBDA index :
                 IF length < 0 THEN Return(None, index)
                 ELSE Let(utf8_decode(Slice(b, index, index + length)), LAMBDA d :
                          IF d.raised THEN Raise("UnicodeDecodeError")
                          ELSE Return(Some(d.v), index + length)))))

\* write_string with the length counted in characters, not in UTF-8 bytes
write_string_chars(s) ==
    IF Falsy(s) THEN pack(int_struct, <<-1>>)
    ELSE pack(int_struct, <<Len(s.v)>>) \o utf8_encode(s.v)

write_string(s) ==
    IF Falsy(s) THEN pack(int_struct, <<-1>>)
    ELSE Let(utf8_encode(s.v), LAMBDA utf8_str :
             pack(int_struct, <<Len(utf8_str)>>) \o utf8_str)

write_buffer(s) ==
    IF Falsy(s) THEN pack(int_struct, <<-1>>)
    ELSE pack(int_struct, <<Len(s.v)>>) \o s.v

\* read_buffer answering a negative length as read_string does, with None
read_buffer_none(b, off) ==
    Let(unpack_from(int_struct, b, off), LAMBDA h :
        IF h.raised # "none" THEN Raise(h.raised)
        ELSE Let(h.value[1], LAMBDA length :
             Let(off + calcsize(int_struct), LAMBDA index :
                 IF length < 0 THEN Return(None, index)
                 ELSE Return(Some(Slice(b, index, index + length)), index + length))))

read_buffer(b, off) ==
    Let(unpack_from(int_struct, b, off), LAMBDA h :
        IF h.raised # "none" THEN Raise(h.raised)
        ELSE Let(h.value[1], LAMBDA length :
             Let(off + calcsize(int_struct), LAMBDA index :
                 IF length < 0 THEN Return(Some(<<>>), index)
                 ELSE Return(Some(Slice(b, index, index + length)), index + length))))

\* ------------------------------------------------------------ records
\* a Python int that fits 32 bits, as the 8-byte value 'q' packs
Long(n) == <<IF n < 0 THEN -1 ELSE 0, IF n < 0 THEN 65535 ELSE 0, (n \div 65536) % 65536, n % 65536>>

\* kazoo.security: Id = namedtuple('Id', 'scheme id'), ACL = namedtuple('ACL', 'perms id')
Id(scheme, id) == [scheme |-> scheme, id |-> id]
ACL(perms, id) == [perms |-> perms, id |-> id]

\* kazoo.protocol.states.ZnodeStat._make: the eleven fields by position
ZnodeStat(t) ==
    [czxid |-> t[1], mzxid |-> t[2], ctime |-> t[3], mtime |-> t[4], version |-> t[5],
     cversion |-> t[6], aversion |-> t[7], ephemeralOwner |-> t[8], dataLength |-> t[9],
     numChildren |-> t[10], pzxid |-> t[11]]

\* attribute lookup on a namedtuple instance
GetAttr(obj, name) ==
    IF name \in DOMAIN obj THEN Return(obj[name], 0) ELSE Raise("AttributeError")

\* read_acl building Id(id, scheme)
read_acl_swapped(b, off) ==
    Let(unpack_from(int_struct, b, off), LAMBDA h :
        IF h.raised # "none" THEN Raise(h.raised)
        ELSE Let(read_string(b, off + calcsize(int_struct)), LAMBDA scheme :
                 IF scheme.raised # "none" THEN Raise(scheme.raised)
                 ELSE Let(read_string(b, scheme.offset), LAMBDA id :
                          IF id.raised # "none" THEN Raise(id.raised)
                          ELSE Return(ACL(h.value[1], Id(id.value, scheme.value)), id.offset))))

read_acl(b, off) ==
    Let(unpack_from(int_struct, b, off), LAMBDA h :
        IF h.raised # "none" THEN Raise(h.raised)
        ELSE Let(read_string(b, off + calcsize(int_struct)), LAMBDA scheme :
                 IF scheme.raised # "none" THEN Raise(scheme.raised)
                 ELSE Let(read_string(b, scheme.offset), LAMBDA id :
                          IF id.raised # "none" THEN Raise(id.raised)
                          ELSE Return(ACL(h.value[1], Id(scheme.value, id.value)), id.offset))))

\* the statement every decoder of a node-metadata record uses:
\* ZnodeStat._make(stat_struct.unpack_from(bytes, offset))
read_stat(b, off) ==
    Let(unpack_from(stat_struct, b, off), LAMBDA u :
        IF u.raised # "none" THEN Raise(u.raised) ELSE Return(ZnodeStat(u.value), off))

\* ------------------------------------------------------------ messages
Connect_serialize(self) ==
    pack(int_long_int_long_struct,
         <<self.protocol_version, self.last_zxid_seen, self.time_out, self.session_id>>)
    \o write_buffer(self.passwd)
    \o <<IF self.read_only THEN 1 ELSE 0>>

\* Connect.deserialize with the timeout passed in the place of last_zxid_seen
Connect_deserialize_shifted(b, off) ==
    Let(unpack_from(int_int_long_struct, b, off), LAMBDA u :
        IF u.raised # "none" THEN Raise(u.raised)
        ELSE Let(read_buffer(b, off + calcsize(int_int_long_struct)), LAMBDA password :
                 IF password.raised # "none" THEN Raise(password.raised)
                 ELSE Return([protocol_version |-> u.value[1], last_zxid_seen |-> u.value[2],
                              time_out |-> 0, session_id |-> u.value[3],
                              passwd |-> password.value, read_only |-> 0],
                             password.offset)))

Connect_deserialize(b, off) ==
    Let(unpack_from(int_int_long_struct, b, off), LAMBDA u :
        IF u.raised # "none" THEN Raise(u.raised)
        ELSE Let(read_buffer(b, off + calcsize(int_int_long_struct)), LAMBDA password :
                 IF password.raised # "none" THEN Raise(password.raised)
                 ELSE Return([protocol_version |-> u.value[1], last_zxid_seen |-> 0,
                              time_out |-> u.value[2], session_id |-> u.value[3],
                              passwd |-> password.value, read_only |-> 0],
                             password.offset)))

\* the loop both ACL-carrying encoders run, after the count: each entry in turn
RECURSIVE write_acls(_)
write_acls(acl) ==
    IF acl = <<>> THEN <<>>
    ELSE pack(int_struct, <<Head(acl).perms>>) \o write_string(Head(acl).id.scheme)
         \o write_string(Head(acl).id.id) \o write_acls(Tail(acl))

write_acl_list(acl) == pack(int_struct, <<Len(acl)>>) \o write_acls(acl)

Create_serialize(self) ==
    write_string(self.path) \o write_buffer(self.data) \o write_acl_list(self.acl)
    \o pack(int_struct, <<self.flags>>)

\* Exists.deserialize taking every negative czxid for the sentinel
Exists_deserialize_negative(b, off) ==
    Let(read_stat(b, off), LAMBDA stat :
        IF stat.raised # "none" THEN Raise(stat.raised)
        ELSE IF stat.value.czxid[1] >= 0 THEN Return(Some(stat.value), off)
        ELSE Return(None, off))

Exists_deserialize(b, off) ==
    Let(read_stat(b, off), LAMBDA stat :
        IF stat.raised # "none" THEN Raise(stat.raised)
        ELSE IF stat.value.czxid # Long(-1) THEN Return(Some(stat.value), off)
        ELSE Return(None, off))

SetData_deserialize(b, off) == read_stat(b, off)

\* for c in range(count): acl, offset = read_acl(bytes, offset); acls.append(acl)
RECURSIVE read_acls(_, _, _)
read_acls(b, off, count) ==
    IF count <= 0 THEN Return(<<>>, off)
    ELSE Let(read_acl(b, off), LAMBDA a :
             IF a.raised # "none" THEN Raise(a.raised)
             ELSE Let(read_acls(b, a.offset, count - 1), LAMBDA rest :
                      IF rest.raised # "none" THEN Raise(rest.raised)
                      ELSE Return(<<a.value>> \o rest.value, rest.offset)))

\* GetACL.deserialize taking a count of 0 for the sentinel too
GetACL_deserialize_nonpositive(b, off) ==
    Let(unpack_from(int_struct, b, off), LAMBDA h :
        IF h.raised # "none" THEN Raise(h.raised)
        ELSE IF h.value[1] <= 0 THEN Return(<<>>, off)
        ELSE Let(read_acls(b, off + calcsize(int_struct), h.value[1]), LAMBDA acls :
                 IF acls.raised # "none" THEN Raise(acls.raised)
                 ELSE Let(read_stat(b, acls.offset), LAMBDA stat :
                          IF stat.raised # "none" THEN Raise(stat.raised)
                          ELSE Return(<<acls.value, stat.value>>, off))))

\* returns [] when the count is -1, else the pair (acls, stat)
GetACL_deserialize(b, off) ==
    Let(unpack_from(int_struct, b, off), LAMBDA h :
        IF h.raised # "none" THEN Raise(h.raised)
        ELSE IF h.value[1] = -1 THEN Return(<<>>, off)
        ELSE Let(read_acls(b, off + calcsize(int_struct), h.value[1]), LAMBDA acls :
                 IF acls.raised # "none" THEN Raise(acls.raised)
                 ELSE Let(read_stat(b, acls.offset), LAMBDA stat :
                          IF stat.raised # "none" THEN Raise(stat.raised)
                          ELSE Return(<<acls.value, stat.value>>, off))))

\* namedtuple('SetACL', 'path acls version'); serialize reads self.acl
SetACL_serialize(self) ==
    Let(GetAttr(self, "acl"), LAMBDA acl :
        IF acl.raised # "none" THEN Raise(acl.raised)
        ELSE Return(write_string(self.path) \o write_acl_list(acl.value)
                    \o pack(int_struct, <<self.version>>), 0))

Watch_deserialize(b, off) ==
    Let(unpack_from(int_int_struct, b, off), LAMBDA u :
        IF u.raised # "none" THEN Raise(u.raised)
        ELSE Let(read_string(b, off + calcsize(int_int_struct)), LAMBDA path :
                 IF path.raised # "none" THEN Raise(path.raised)
                 ELSE Return([type |-> u.value[1], state |-> u.value[2], path |-> path.value],
                             path.offset)))

ReplyHeader_deserialize(b, off) ==
    Let(unpack_from(reply_header_struct, b, off), LAMBDA u :
        IF u.raised # "none" THEN Raise(u.raised)
        ELSE Return([xid |-> u.value[1], zxid |-> u.value[2], err |-> u.value[3]],
                    off + calcsize(reply_header_struct)))

\* ------------------------------------------------------------ inputs
RECURSIVE SeqsUpTo(_, _)
SeqsUpTo(S, n) ==
    IF n = 0 THEN {<<>>}
    ELSE LET shorter == SeqsUpTo(S, n - 1)
         IN shorter \cup {<<x>> \o s : x \in S, s \in {t \in shorter : Len(t) = n - 1}}

\* 'A', e-acute (2 bytes in UTF-8), the euro sign (3 bytes)
CodePoints == {65, 233, 8364}
Texts == {None} \cup {Some(t) : t \in SeqsUpTo(CodePoints, MaxTextLen)}
ByteChoice == {0, 65, 255}
Buffers == {None} \cup {Some(t) : t \in SeqsUpTo(ByteChoice, MaxBufLen)}
\* bytes of an enclosing message before the field: the starting offset
Pads == {[i \in 1..n |-> 0] : n \in 0..MaxPad}

\* 8-byte values: -1, 0, 5, 2^32 - 1 (low half all ones), -2, the least one
Longs == {Long(-1), Long(0), Long(5), <<0, 0, 65535, 65535>>, Long(-2), <<-32768, 0, 0, 0>>}

AclTexts == {None, Some(<<>>), Some(<<65>>), Some(<<233, 8364>>)}
AclEntries == {ACL(p, Id(s, i)) : p \in {1, 31}, s \in AclTexts, i \in AclTexts}
\* entries with texts an encoder sends unchanged, all distinct, for lists where order shows
AclPool ==
    <<ACL(31, Id(Some(<<65>>), Some(<<233, 8364>>))), ACL(1, Id(Some(<<233, 8364>>), Some(<<65>>))),
      ACL(2, Id(Some(<<65>>), Some(<<65>>))), ACL(4, Id(None, Some(<<65>>))),
      ACL(8, Id(Some(<<65, 65>>), None)), ACL(16, Id(Some(<<8364>>), Some(<<233>>)))>>
Window(r, n) == [i \in 1..n |-> AclPool[((r + i - 1) % Len(AclPool)) + 1]]
AclLists ==
    {<<e>> : e \in AclEntries} \cup {Window(r, n) : r \in 0..(Len(AclPool) - 1), n \in 0..MaxAcls}

\* the ten fields after czxid: all different, or all -1
StatRests ==
    {<<Long(2), Long(3), Long(4), 5, 6, 7, Long(8), 9, 10, Long(11)>>,
     <<Long(-1), Long(-1), Long(-1), -1, -1, -1, Long(-1), -1, -1, Long(-1)>>}
Stats == {<<c>> \o rest : c \in Longs, rest \in StatRests}

\* what the service writes: a text or buffer field (None as -1, empty as length 0)
WireString(s) ==
    IF s.isNone THEN pack(int_struct, <<-1>>)
    ELSE pack(int_struct, <<Len(utf8_encode(s.v))>>) \o utf8_encode(s.v)
WireBuffer(s) ==
    IF s.isNone THEN pack(int_struct, <<-1>>) ELSE pack(int_struct, <<Len(s.v)>>) \o s.v
WireAcl(a) == pack(int_struct, <<a.perms>>) \o WireString(a.id.scheme) \o WireString(a.id.id)
RECURSIVE WireAcls(_)
WireAcls(l) == IF l = <<>> THEN <<>> ELSE WireAcl(Head(l)) \o WireAcls(Tail(l))
WireStat(st) == pack(<<"q", "q", "q", "q", "i", "i", "i", "q", "i", "i", "q">>, st)
DropLast(b, k) == SubSeq(b, 1, Len(b) - Min(k, Len(b)))

NoCall == [op |-> "none", n |-> 0, at |-> 0, raised |-> "none", value |-> <<>>, offset |-> 0]
Nothing == [op |-> "none", value |-> <<>>, start |-> 0, nbytes |-> 0, cut |-> 0]

\* ------------------------------------------------------------ the caller
Init ==
    /\ pc = "idle"
    /\ buffer = <<>>
    /\ offset = 0
    /\ sent = Nothing
    /\ ret = NoCall

\* the caller holds pad, appends bytes less their last cut ones (a short read), and will
\* decode from skip bytes into them
Load(op, value, pad, bytes, skip, cut) ==
    /\ pc' = "ready"
    /\ buffer' = pad \o DropLast(bytes, cut)
    /\ offset' = Len(pad) + skip
    /\ sent' = [op |-> op, value |-> value, start |-> Len(pad) + skip,
                nbytes |-> Len(bytes), cut |-> cut]
    /\ ret' = NoCall

\* the exchanges whose bytes are single fields and envelopes
Fields ==
    {"write_string", "write_buffer", "recv_string", "recv_buffer", "recv_acl", "recv_watch",
     "recv_header"}

\* A decode call at the current offset, on the bytes of one of the exchanges in on.  A
\* call that returns an offset moves the cursor and may be followed by another (at most
\* MaxCalls in a row); a call that returns its result alone ends the decoding.
Call(op, on, r, threads) ==
    /\ pc = "ready"
    /\ sent.op \in on
    /\ ret.n < MaxCalls
    /\ \E res \in {r} :
           /\ ret' = [op |-> op, n |-> ret.n + 1, at |-> offset, raised |-> res.raised,
                      value |-> res.value, offset |-> res.offset]
           /\ offset' = IF threads /\ res.raised = "none" THEN res.offset ELSE offset
    /\ pc' = IF threads THEN "ready" ELSE "done"
    /\ UNCHANGED <<buffer, sent>>

\* ---- encoders
WriteString ==
    /\ pc = "idle"
    /\ \E s \in Texts, pad \in Pads : Load("write_string", s, pad, write_string(s), 0, 0)

WriteBuffer ==
    /\ pc = "idle"
    /\ \E s \in Buffers, pad \in Pads : Load("write_buffer", s, pad, write_buffer(s), 0, 0)

ConnectSerialize ==
    /\ pc = "idle"
    /\ \E pv \in {0, -1}, z \in {Long(0), Long(5)}, t \in {30000}, sid \in {Long(0), Long(-2)},
          pw \in {None, Some(<<>>), Some(<<0, 255>>)}, ro \in BOOLEAN, pad \in Pads :
           LET self == [protocol_version |-> pv, last_zxid_seen |-> z, time_out |-> t,
                        session_id |-> sid, passwd |-> pw, read_only |-> ro]
           IN Load("Connect.serialize", self, pad, Connect_serialize(self), 0, 0)

\* the request, then the 68 bytes of a record, read from where the ACL list starts
CreateSerialize ==
    /\ pc = "idle"
    /\ \E path \in {Some(<<47, 65>>), Some(<<47, 233>>)}, data \in {None, Some(<<0, 255>>)},
          acl \in AclLists, flags \in {0, 3}, pad \in Pads :
           LET self == [path |-> path, data |-> data, acl |-> acl, flags |-> flags]
           IN Load("Create.serialize", self, pad,
                   Create_serialize(self) \o WireStat(<<Long(1)>> \o CHOOSE r \in StatRests : r[4] = 5),
                   Len(write_string(path)) + Len(write_buffer(data)), 0)

SetACLSerialize ==
    /\ pc = "idle"
    /\ \E path \in {Some(<<47, 65>>)}, acls \in AclLists, version \in {-1, 3} :
           LET self == [path |-> path, acls |-> acls, version |-> version]
               r == SetACL_serialize(self)
           IN /\ pc' = "ready"
              /\ buffer' = r.value
              /\ offset' = 0
              /\ sent' = [op |-> "SetACL.serialize", value |-> self, start |-> 0,
                          nbytes |-> Len(r.value), cut |-> 0]
              /\ ret' = [op |-> "SetACL.serialize", n |-> 0, at |-> 0, raised |-> r.raised,
                         value |-> r.value, offset |-> 0]

\* ---- bytes from the service
ReceiveString ==
    /\ pc = "idle"
    /\ \E s \in Texts, pad \in Pads, cut \in 0..MaxCut : Load("recv_string", s, pad, WireString(s), 0, cut)

ReceiveBuffer ==
    /\ pc = "idle"
    /\ \E s \in Buffers, pad \in Pads, cut \in 0..MaxCut : Load("recv_buffer", s, pad, WireBuffer(s), 0, cut)

ReceiveAcl ==
    /\ pc = "idle"
    /\ \E a \in AclEntries, pad \in Pads, cut \in 0..MaxCut : Load("recv_acl", a, pad, WireAcl(a), 0, cut)

ReceiveWatch ==
    /\ pc = "idle"
    /\ \E t \in {1, -1}, st \in {3}, path \in Texts, pad \in Pads, cut \in 0..MaxCut :
           Load("recv_watch", [type |-> t, state |-> st, path |-> path], pad,
                pack(int_int_struct, <<t, st>>) \o WireString(path), 0, cut)

ReceiveReplyHeader ==
    /\ pc = "idle"
    /\ \E xid \in {42, -1}, zxid \in {Long(100000), Long(-1)}, err \in {0, -101},
          tailing \in {None, Some(<<65>>)}, pad \in Pads, cut \in 0..MaxCut :
           Load("recv_header", [xid |-> xid, zxid |-> zxid, err |-> err], pad,
                pack(reply_header_struct, <<xid, zxid, err>>) \o WireString(tailing), 0, cut)

ReceiveConnect ==
    /\ pc = "idle"
    /\ \E pv \in {0, -1}, t \in {30000}, sid \in Longs, pw \in Buffers, pad \in Pads,
          cut \in 0..MaxCut :
           Load("recv_connect", [protocol_version |-> pv, time_out |-> t, session_id |-> sid,
                                 passwd |-> pw], pad,
                pack(int_int_long_struct, <<pv, t, sid>>) \o WireBuffer(pw), 0, cut)

ReceiveStat ==
    /\ pc = "idle"
    /\ \E st \in Stats, pad \in Pads, cut \in 0..MaxCut : Load("recv_stat", st, pad, WireStat(st), 0, cut)

ReceiveGetACL ==
    /\ pc = "idle"
    /\ \E l \in AclLists, st \in {s \in Stats : s[1] = Long(5)}, pad \in Pads, cut \in 0..MaxCut :
           \E count \in {-2, -1, Len(l)} :
               Load("recv_getacl", [count |-> count, acls |-> l, stat |-> st], pad,
                    pack(int_struct, <<count>>) \o WireAcls(l) \o WireStat(st), 0, cut)

\* ---- decoders
ReadString == Call("read_string", Fields, read_string(buffer, offset), TRUE)
ReadBuffer == Call("read_buffer", Fields, read_buffer(buffer, offset), TRUE)
ReadAcl == Call("read_acl", Fields, read_acl(buffer, offset), TRUE)
WatchDeserialize == Call("Watch.deserialize", Fields, Watch_deserialize(buffer, offset), TRUE)
ReplyHeaderDeserialize ==
    Call("ReplyHeader.deserialize", Fields, ReplyHeader_deserialize(buffer, offset), TRUE)
ConnectDeserialize ==
    Call("Connect.deserialize", {"recv_connect", "Connect.serialize", "recv_header"},
         Connect_deserialize(buffer, offset), TRUE)
ExistsDeserialize ==
    Call("Exists.deserialize", {"recv_stat", "recv_getacl"}, Exists_deserialize(buffer, offset), FALSE)
SetDataDeserialize ==
    Call("SetData.deserialize", {"recv_stat", "recv_getacl"}, SetData_deserialize(buffer, offset), FALSE)
GetACLDeserialize ==
    Call("GetACL.deserialize", {"recv_getacl", "Create.serialize", "recv_acl"},
         GetACL_deserialize(buffer, offset), FALSE)

Next ==
    \/ WriteString
    \/ WriteBuffer
    \/ ConnectSerialize
    \/ CreateSerialize
    \/ SetACLSerialize
    \/ ReceiveString
    \/ ReceiveBuffer
    \/ ReceiveAcl
    \/ ReceiveWatch
    \/ ReceiveReplyHeader
    \/ ReceiveConnect
    \/ ReceiveStat
    \/ ReceiveGetACL
    \/ ReadString
    \/ ReadBuffer
    \/ ReadAcl
    \/ WatchDeserialize
    \/ ReplyHeaderDeserialize
    \/ ConnectDeserialize
    \/ ExistsDeserialize
    \/ SetDataDeserialize
    \/ GetACLDeserialize

Spec == Init /\ [][Next]_vars

\* ------------------------------------------------------------ properties
\* where a length-prefixed field that starts at off ends: 4 bytes, then the declared
\* length when it is not negative
FieldEnd(b, off) == off + 4 + Max(S32(b, off), 0)
\* where an ACL entry that starts at off ends: the bitmask, then two fields
EntryEnd(b, off) == FieldEnd(b, FieldEnd(b, off + 4))
RECURSIVE EntriesEnd(_, _, _)
EntriesEnd(b, off, n) == IF n = 0 THEN off ELSE EntriesEnd(b, EntryEnd(b, off), n - 1)
EmptyAsAbsent(t) == IF Falsy(t) THEN None ELSE t

FirstCall(write, read) == sent.op = write /\ ret.op = read /\ ret.at = sent.start

\* C1 as claimed: read_string of the bytes write_string(s) produced returns s itself, for
\* every text s, None and the empty string included, and the offset advances by the
\* number of bytes written.
C1_RoundTripEveryText ==
    FirstCall("write_string", "read_string") =>
        /\ ret.raised = "none"
        /\ ret.value = sent.value
        /\ ret.offset = ret.at + sent.nbytes

\* C1 amended: read_string of the bytes write_string(s) produced returns s for None and
\* for every non-empty text, returns None for the empty string, and in every case the
\* offset advances by the number of bytes written.
C1_RoundTripText ==
    FirstCall("write_string", "read_string") =>
        /\ ret.raised = "none"
        /\ ret.value = EmptyAsAbsent(sent.value)
        /\ ret.offset = ret.at + sent.nbytes

C1_Witness ==
    /\ FirstCall("write_string", "read_string")
    /\ sent.start > 0
    /\ Len(sent.value.v) >= 2
    /\ 8364 \in {sent.value.v[i] : i \in 1..Len(sent.value.v)}
    /\ ret.value = sent.value

\* C2: read_buffer of write_buffer(b) returns b and an offset advanced by 4 + len(b) for a
\* non-empty b; for an empty or absent input write_buffer emits the 4 bytes of -1 alone
\* and read_buffer returns an empty sequence, not None, with the offset advanced by 4.
C2_RoundTripBuffer ==
    FirstCall("write_buffer", "read_buffer") =>
        /\ ret.raised = "none"
        /\ IF Falsy(sent.value)
           THEN /\ sent.nbytes = 4
                /\ S32(buffer, sent.start) = -1
                /\ ret.value = Some(<<>>)
                /\ ret.offset = ret.at + 4
           ELSE /\ ret.value = sent.value
                /\ ret.offset = ret.at + 4 + Len(sent.value.v)

C2_Witness ==
    /\ FirstCall("write_buffer", "read_buffer")
    /\ sent.value.isNone
    /\ sent.start > 0
    /\ ret.value = Some(<<>>)
    /\ ret.offset = Len(buffer)

\* C3: when a text or buffer field declares a non-negative length larger than the bytes
\* that remain after its length prefix, read_string and read_buffer raise; they never
\* return a value and an offset.
C3_TruncatedFieldRaises ==
    (/\ ret.op \in {"read_string", "read_buffer"}
     /\ ret.at + 4 <= Len(buffer)
     /\ S32(buffer, ret.at) >= 0
     /\ S32(buffer, ret.at) > Len(buffer) - (ret.at + 4))
    => ret.raised # "none"

StatAt(b, off) ==
    [czxid |-> S64(b, off), mzxid |-> S64(b, off + 8), ctime |-> S64(b, off + 16),
     mtime |-> S64(b, off + 24), version |-> S32(b, off + 32), cversion |-> S32(b, off + 36),
     aversion |-> S32(b, off + 40), ephemeralOwner |-> S64(b, off + 44),
     dataLength |-> S32(b, off + 52), numChildren |-> S32(b, off + 56),
     pzxid |-> S64(b, off + 60)]

\* C4 as claimed: decoding the node-metadata record takes exactly 88 bytes: it succeeds
\* exactly when 88 bytes remain at the offset.
C4_StatIs88Bytes ==
    ret.op = "SetData.deserialize" => (ret.raised = "none" <=> Len(buffer) - ret.at >= 88)

\* C4 amended: decoding the node-metadata record takes exactly 68 bytes (six 8-byte and
\* five 4-byte fields): it succeeds exactly when 68 bytes remain at the offset, and the
\* fields are czxid, mzxid, ctime, mtime (8 bytes each), version, cversion, aversion (4
\* each), ephemeral owner (8), data length (4), child count (4), pzxid (8), in this order.
C4_StatIs68Bytes ==
    ret.op = "SetData.deserialize" =>
        /\ ret.raised = "none" <=> Len(buffer) - ret.at >= 68
        /\ ret.raised = "none" => ret.value = StatAt(buffer, ret.at)
        /\ (ret.raised = "none" /\ sent.op = "recv_stat" /\ ret.at = sent.start) =>
               /\ ret.value.czxid = sent.value[1]
               /\ ret.value.version = sent.value[5]
               /\ ret.value.ephemeralOwner = sent.value[8]
               /\ ret.value.numChildren = sent.value[10]
               /\ ret.value.pzxid = sent.value[11]

C4_Witness ==
    /\ FirstCall("recv_stat", "SetData.deserialize")
    /\ ret.raised = "none"
    /\ sent.start > 0
    /\ Len(buffer) - ret.at = 68
    /\ ret.value.version = 5
    /\ ret.value.pzxid = Long(11)

\* C5 as claimed: the ACL list Create.serialize writes decodes through GetACL.deserialize
\* to the same list: same length, same order, every bitmask, scheme and identifier equal.
C5_AclListRoundTrip ==
    FirstCall("Create.serialize", "GetACL.deserialize") =>
        /\ ret.raised = "none"
        /\ Len(ret.value) = 2
        /\ ret.value[1] = sent.value.acl

\* C5 amended: the ACL list Create.serialize writes, followed by a 68-byte record, decodes
\* through GetACL.deserialize to a list of the same length and order with every bitmask
\* equal and every scheme and identifier equal, except that an empty scheme or identifier
\* comes back as None.
C5_AclListRoundTripNonEmpty ==
    FirstCall("Create.serialize", "GetACL.deserialize") =>
        /\ ret.raised = "none"
        /\ Len(ret.value) = 2
        /\ ret.value[1] =
               [i \in 1..Len(sent.value.acl) |->
                   ACL(sent.value.acl[i].perms,
                       Id(EmptyAsAbsent(sent.value.acl[i].id.scheme),
                          EmptyAsAbsent(sent.value.acl[i].id.id)))]

C5_Witness ==
    /\ FirstCall("Create.serialize", "GetACL.deserialize")
    /\ ret.raised = "none"
    /\ Len(sent.value.acl) = 5
    /\ ret.value[1] = sent.value.acl
    /\ ret.value[1][1].perms # ret.value[1][5].perms

\* C6: SetACL.serialize completes and returns the length-prefixed path, the ACL list the
\* value was constructed with (count, then each entry), and the 4-byte version.
C6_SetACLSerializes ==
    ret.op = "SetACL.serialize" =>
        /\ ret.raised = "none"
        /\ ret.value = write_string(sent.value.path) \o write_acl_list(sent.value.acls)
                       \o pack(int_struct, <<sent.value.version>>)

\* C7: on a count of -1 GetACL.deserialize returns a bare empty list and reads no record;
\* on a count n >= 0 it returns, when the body decodes, the pair of the n entries in wire
\* order and the record decoded from the bytes right after the last entry.
C7_GetACLShape ==
    (ret.op = "GetACL.deserialize" /\ ret.at + 4 <= Len(buffer)) =>
        LET count == S32(buffer, ret.at)
        IN /\ count = -1 => (ret.raised = "none" /\ Len(ret.value) = 0)
           /\ (count >= 0 /\ ret.raised = "none") =>
                  /\ Len(ret.value) = 2
                  /\ Len(ret.value[1]) = count
                  /\ \A i \in 1..count :
                         ret.value[1][i].perms = S32(buffer, EntriesEnd(buffer, ret.at + 4, i - 1))
                  /\ ret.value[2] = StatAt(buffer, EntriesEnd(buffer, ret.at + 4, count))
           /\ (/\ count >= 0
               /\ FirstCall("recv_getacl", "GetACL.deserialize")
               /\ sent.cut = 0
               /\ count = Len(sent.value.acls)) =>
                  /\ ret.raised = "none"
                  /\ ret.value[1] = sent.value.acls
                  /\ ret.value[2] = ZnodeStat(sent.value.stat)

C7_Witness ==
    /\ FirstCall("recv_getacl", "GetACL.deserialize")
    /\ ret.raised = "none"
    /\ S32(buffer, ret.at) = 1
    /\ Len(ret.value) = 2
    /\ Len(ret.value[1]) = 1
    /\ ret.value[2].czxid = Long(5)

\* C8: Connect.serialize writes (int, long, int, long), the length-prefixed password and
\* one byte, 1 iff read-only; Connect.deserialize reads (int, int, long) and the password,
\* so its result has last_zxid_seen = 0 and read_only = 0 whatever the bytes, and its
\* offset is the start + 16 + 4 + max(declared password length, 0).
C8_HandshakeAsymmetry ==
    /\ sent.op = "Connect.serialize" =>
           LET at == sent.start
               pw == IF Falsy(sent.value.passwd) THEN <<>> ELSE sent.value.passwd.v
           IN /\ Len(buffer) = at + 24 + 4 + Len(pw) + 1
              /\ S32(buffer, at) = sent.value.protocol_version
              /\ S64(buffer, at + 4) = sent.value.last_zxid_seen
              /\ S32(buffer, at + 12) = sent.value.time_out
              /\ S64(buffer, at + 16) = sent.value.session_id
              /\ S32(buffer, at + 24) = (IF pw = <<>> THEN -1 ELSE Len(pw))
              /\ SubSeq(buffer, at + 29, at + 28 + Len(pw)) = pw
              /\ buffer[Len(buffer)] = (IF sent.value.read_only THEN 1 ELSE 0)
    /\ (ret.op = "Connect.deserialize" /\ ret.raised = "none") =>
           /\ ret.value.last_zxid_seen = 0
           /\ ret.value.read_only = 0
           /\ ret.value.protocol_version = S32(buffer, ret.at)
           /\ ret.value.time_out = S32(buffer, ret.at + 4)
           /\ ret.value.session_id = S64(buffer, ret.at + 8)
           /\ ret.offset = ret.at + 16 + 4 + Max(S32(buffer, ret.at + 16), 0)

C8_Witness ==
    /\ FirstCall("Connect.serialize", "Connect.deserialize")
    /\ ret.raised = "none"
    /\ sent.value.read_only
    /\ sent.value.last_zxid_seen = Long(5)
    /\ ~Falsy(sent.value.passwd)
    /\ ret.value.last_zxid_seen = 0

\* C9: Exists.deserialize returns None exactly when the czxid field of the record, its
\* first 8 bytes, is -1; for every other czxid it returns the whole decoded record.
C9_ExistsSentinel ==
    (ret.op = "Exists.deserialize" /\ ret.raised = "none") =>
        /\ ret.value.isNone <=> (\A k \in 1..8 : buffer[ret.at + k] = 255)
        /\ ~ret.value.isNone => ret.value.v = StatAt(buffer, ret.at)
        /\ (sent.op = "recv_stat" /\ ret.at = sent.start) =>
               (ret.value.isNone <=> sent.value[1] = Long(-1))

C9_Witness ==
    /\ FirstCall("recv_stat", "Exists.deserialize")
    /\ ret.raised = "none"
    /\ sent.value[1] = Long(-2)
    /\ sent.value[2] = Long(-1)
    /\ ~ret.value.isNone
    /\ ret.value.v.czxid = Long(-2)

\* C10: every primitive decode that returns leaves the cursor at the offset it returned,
\* which is greater than the one it was given, is the position right after the bytes it
\* consumed (4 for a negative length prefix, 4 + length otherwise, 16 for the reply
\* header), and is never greater than the buffer length.
C10_OffsetThreading ==
    (/\ ret.op \in {"read_string", "read_buffer", "read_acl", "Watch.deserialize",
                    "ReplyHeader.deserialize"}
     /\ ret.raised = "none") =>
        /\ offset = ret.offset
        /\ ret.offset > ret.at
        /\ ret.offset =
               (CASE ret.op \in {"read_string", "read_buffer"} -> FieldEnd(buffer, ret.at)
                  [] ret.op = "read_acl" -> EntryEnd(buffer, ret.at)
                  [] ret.op = "Watch.deserialize" -> FieldEnd(buffer, ret.at + 8)
                  [] OTHER -> ret.at + 16)
        /\ ret.offset <= Len(buffer)

====
